---- MODULE Spec2Model ----
(***************************************************************************)
(* Model of static/admin.js: the anonymous initializer that reads the      *)
(* three globals window.__labels, window.__orderCounts, window.__revenues, *)
(* looks up the elements "ordersChart" and "revenueChart" and constructs   *)
(* one Chart on each element that exists.                                  *)
(*                                                                         *)
(* The program position pc is named after the source line about to run.    *)
(***************************************************************************)
EXTENDS Integers, Sequences, FiniteSets, TLC

(***************************************************************************)
(* Bounds of the model.                                                    *)
(***************************************************************************)
\* longest array the page injects
MaxLen == 2

\* longest array the page injects in the runs checked for termination
MaxFairLen == 1

\* array elements: a numeric one and a non-numeric one
Elems == {"10", "x"}

(***************************************************************************)
(* JavaScript values.  t is the type tag, prim the text of a primitive (or *)
(* the id of an element), elems the contents of an array.                  *)
(***************************************************************************)
JSUndefined == [t |-> "undefined", prim |-> "", elems |-> <<>>]
JSNull == [t |-> "null", prim |-> "", elems |-> <<>>]
JSNumber(p) == [t |-> "number", prim |-> p, elems |-> <<>>]
JSString(p) == [t |-> "string", prim |-> p, elems |-> <<>>]
JSObject == [t |-> "object", prim |-> "", elems |-> <<>>]
JSArray(s) == [t |-> "array", prim |-> "", elems |-> s]
JSElement(id) == [t |-> "element", prim |-> id, elems |-> <<>>]

\* a const binding whose declaration has not run yet
Unbound == [t |-> "unbound", prim |-> "", elems |-> <<>>]

\* the literal [] of lines 2-4
EmptyArray == JSArray(<<>>)

SeqsUpTo(n) == UNION {[1..k -> Elems] : k \in 0..n}

Arrays == {JSArray(s) : s \in SeqsUpTo(MaxLen)}

\* what the page may have put in a global before the script runs
GlobalValues ==
    {JSUndefined, JSNull, JSNumber("0"), JSNumber("5"), JSString(""),
     JSString("x"), JSObject} \cup Arrays

GlobalNames == {"__labels", "__orderCounts", "__revenues"}

ElementIds == {"ordersChart", "revenueChart"}

\* the identifier Chart: bound to the library's constructor, or not bound
ChartStates == {"loaded", "missing"}

\* no uncaught error
NoError == [name |-> "none", line |-> 0]

VARIABLES
    window,        \* the three globals: GlobalNames -> JS value
    document,      \* ids of the elements in the page
    chartLib,      \* state of the identifier Chart
    chartRaises,   \* ids of the elements on which the Chart constructor raises
    labels, orderCounts, revenues,   \* the consts of lines 2-4
    ordersCtx, revenueCtx,           \* the consts of lines 6 and 18
    charts,        \* Chart instances constructed so far, in order
    pc,            \* source line about to run, "done" or "aborted"
    err            \* the uncaught error and the line that raised it

vars == <<window, document, chartLib, chartRaises, labels, orderCounts, revenues,
          ordersCtx, revenueCtx, charts, pc, err>>

(***************************************************************************)
(* Operators of the language and of the DOM.                               *)
(***************************************************************************)
\* ToBoolean
Truthy(v) ==
    /\ v.t \notin {"undefined", "null"}
    /\ ~(v.t = "number" /\ v.prim \in {"0", "NaN"})
    /\ ~(v.t = "string" /\ v.prim = "")

\* variants of Or: no fallback at all; fallback for everything but an array
OrNoFallback(a, b) == a
OrArrayOnly(a, b) == IF a.t = "array" THEN a ELSE b
\* a || b
Or(a, b) == IF Truthy(a) THEN a ELSE b

\* document.getElementById(id)
getElementById(id) == IF id \in document THEN JSElement(id) ELSE JSNull

(***************************************************************************)
(* The two configuration objects.                                          *)
(***************************************************************************)
Config(type, l, dsLabel, d) ==
    [type |-> type,
     data |-> [labels |-> l, datasets |-> <<[label |-> dsLabel, data |-> d]>>],
     options |-> [responsive |-> TRUE]]

\* variants of OrdersConfig: the type of the other chart; series cut to a
\* common length; a type that depends on the data
Shorter(a, b) == IF Len(a.elems) <= Len(b.elems) THEN Len(a.elems) ELSE Len(b.elems)
Truncated(a, n) == IF a.t = "array" THEN JSArray(SubSeq(a.elems, 1, n)) ELSE a
OrdersConfigSwapped(l, d) == Config("bar", l, "Orders", d)
OrdersConfigValidated(l, d) ==
    Config("line", Truncated(l, Shorter(l, d)), "Orders", Truncated(d, Shorter(l, d)))
OrdersConfigByData(l, d) ==
    Config(IF d = EmptyArray THEN "bar" ELSE "line", l, "Orders", d)
\* lines 8-15
OrdersConfig(l, d) == Config("line", l, "Orders", d)

\* lines 20-27
RevenueConfig(l, d) == Config("bar", l, "Revenue (KRW)", d)

\* new Chart(ctx, config), when it returns
NewChart(ctx, config) == [ctx |-> ctx, config |-> config]

\* the error an evaluation of new Chart(ctx, ...) raises, "none" if it returns:
\* an unbound identifier is a ReferenceError before the call is made, and
\* whether the library's constructor raises is the library's business
ChartError(ctx) ==
    IF chartLib = "missing" THEN "ReferenceError"
    ELSE IF ctx.prim \in chartRaises THEN "Error"
    ELSE "none"

(***************************************************************************)
(* Initial state: the page as the script finds it.                         *)
(***************************************************************************)
Init ==
    /\ window \in [GlobalNames -> GlobalValues]
    /\ document \in SUBSET ElementIds
    /\ chartLib \in ChartStates
    /\ chartRaises \in SUBSET ElementIds
    /\ chartLib = "missing" => chartRaises = {}
    /\ labels = Unbound
    /\ orderCounts = Unbound
    /\ revenues = Unbound
    /\ ordersCtx = Unbound
    /\ revenueCtx = Unbound
    /\ charts = <<>>
    /\ pc = "L2"
    /\ err = NoError

(***************************************************************************)
(* The statements of the initializer.                                      *)
(***************************************************************************)
\* variant of ReadLabels: the fallback is stored back into the global
ReadLabelsWriteBack ==
    /\ pc = "L2"
    /\ labels' = Or(window["__labels"], EmptyArray)
    /\ window' = [window EXCEPT !["__labels"] = Or(window["__labels"], EmptyArray)]
    /\ pc' = "L3"
    /\ UNCHANGED <<document, chartLib, chartRaises, orderCounts, revenues,
                   ordersCtx, revenueCtx, charts, err>>
\* line 2
ReadLabels ==
    /\ pc = "L2"
    /\ labels' = Or(window["__labels"], EmptyArray)
    /\ pc' = "L3"
    /\ UNCHANGED <<window, document, chartLib, chartRaises, orderCounts, revenues,
                   ordersCtx, revenueCtx, charts, err>>

\* variant of ReadOrderCounts: empty labels empty the order counts too
ReadOrderCountsCoupled ==
    /\ pc = "L3"
    /\ orderCounts' = IF labels = EmptyArray THEN EmptyArray
                      ELSE Or(window["__orderCounts"], EmptyArray)
    /\ pc' = "L4"
    /\ UNCHANGED <<window, document, chartLib, chartRaises, labels, revenues,
                   ordersCtx, revenueCtx, charts, err>>
\* line 3
ReadOrderCounts ==
    /\ pc = "L3"
    /\ orderCounts' = Or(window["__orderCounts"], EmptyArray)
    /\ pc' = "L4"
    /\ UNCHANGED <<window, document, chartLib, chartRaises, labels, revenues,
                   ordersCtx, revenueCtx, charts, err>>

\* line 4
ReadRevenues ==
    /\ pc = "L4"
    /\ revenues' = Or(window["__revenues"], EmptyArray)
    /\ pc' = "L6"
    /\ UNCHANGED <<window, document, chartLib, chartRaises, labels, orderCounts,
                   ordersCtx, revenueCtx, charts, err>>

\* line 6
LookupOrders ==
    /\ pc = "L6"
    /\ ordersCtx' = getElementById("ordersChart")
    /\ pc' = "L7"
    /\ UNCHANGED <<window, document, chartLib, chartRaises, labels, orderCounts, revenues,
                   revenueCtx, charts, err>>

\* variant of ConstructOrders: no presence check
ConstructOrdersUnchecked ==
    /\ pc = "L7"
    /\ ChartError(ordersCtx) = "none"
    /\ charts' = Append(charts, NewChart(ordersCtx, OrdersConfig(labels, orderCounts)))
    /\ pc' = "L18"
    /\ UNCHANGED <<window, document, chartLib, chartRaises, labels, orderCounts, revenues,
                   ordersCtx, revenueCtx, err>>
\* lines 7-16, the branch taken, new Chart returns
ConstructOrders ==
    /\ pc = "L7"
    /\ Truthy(ordersCtx)
    /\ ChartError(ordersCtx) = "none"
    /\ charts' = Append(charts, NewChart(ordersCtx, OrdersConfig(labels, orderCounts)))
    /\ pc' = "L18"
    /\ UNCHANGED <<window, document, chartLib, chartRaises, labels, orderCounts, revenues,
                   ordersCtx, revenueCtx, err>>

\* variant of RaiseOrders: the error is caught and the script goes on
RaiseOrdersCaught ==
    /\ pc = "L7"
    /\ Truthy(ordersCtx)
    /\ ChartError(ordersCtx) # "none"
    /\ err' = [name |-> ChartError(ordersCtx), line |-> 8]
    /\ pc' = "L18"
    /\ UNCHANGED <<window, document, chartLib, chartRaises, labels, orderCounts, revenues,
                   ordersCtx, revenueCtx, charts>>
\* lines 7-16, the branch taken, new Chart raises: nothing catches it
RaiseOrders ==
    /\ pc = "L7"
    /\ Truthy(ordersCtx)
    /\ ChartError(ordersCtx) # "none"
    /\ err' = [name |-> ChartError(ordersCtx), line |-> 8]
    /\ pc' = "aborted"
    /\ UNCHANGED <<window, document, chartLib, chartRaises, labels, orderCounts, revenues,
                   ordersCtx, revenueCtx, charts>>

\* line 7, the branch not taken
SkipOrders ==
    /\ pc = "L7"
    /\ ~Truthy(ordersCtx)
    /\ pc' = "L18"
    /\ UNCHANGED <<window, document, chartLib, chartRaises, labels, orderCounts, revenues,
                   ordersCtx, revenueCtx, charts, err>>

\* line 18
LookupRevenue ==
    /\ pc = "L18"
    /\ revenueCtx' = getElementById("revenueChart")
    /\ pc' = "L19"
    /\ UNCHANGED <<window, document, chartLib, chartRaises, labels, orderCounts, revenues,
                   ordersCtx, charts, err>>

\* variant of ConstructRevenue: the construction is repeated once
ConstructRevenueAgain ==
    /\ pc = "L19"
    /\ Truthy(revenueCtx)
    /\ ChartError(revenueCtx) = "none"
    /\ charts' = Append(charts, NewChart(revenueCtx, RevenueConfig(labels, revenues)))
    /\ pc' = IF Len(charts) < 2 THEN "L19" ELSE "done"
    /\ UNCHANGED <<window, document, chartLib, chartRaises, labels, orderCounts, revenues,
                   ordersCtx, revenueCtx, err>>
\* lines 19-28, the branch taken, new Chart returns
ConstructRevenue ==
    /\ pc = "L19"
    /\ Truthy(revenueCtx)
    /\ ChartError(revenueCtx) = "none"
    /\ charts' = Append(charts, NewChart(revenueCtx, RevenueConfig(labels, revenues)))
    /\ pc' = "done"
    /\ UNCHANGED <<window, document, chartLib, chartRaises, labels, orderCounts, revenues,
                   ordersCtx, revenueCtx, err>>

\* lines 19-28, the branch taken, new Chart raises: nothing catches it
RaiseRevenue ==
    /\ pc = "L19"
    /\ Truthy(revenueCtx)
    /\ ChartError(revenueCtx) # "none"
    /\ err' = [name |-> ChartError(revenueCtx), line |-> 20]
    /\ pc' = "aborted"
    /\ UNCHANGED <<window, document, chartLib, chartRaises, labels, orderCounts, revenues,
                   ordersCtx, revenueCtx, charts>>

\* line 19, the branch not taken
SkipRevenue ==
    /\ pc = "L19"
    /\ ~Truthy(revenueCtx)
    /\ pc' = "done"
    /\ UNCHANGED <<window, document, chartLib, chartRaises, labels, orderCounts, revenues,
                   ordersCtx, revenueCtx, charts, err>>

Next ==
    \/ ReadLabels
    \/ ReadOrderCounts
    \/ ReadRevenues
    \/ LookupOrders
    \/ ConstructOrders
    \/ RaiseOrders
    \/ SkipOrders
    \/ LookupRevenue
    \/ ConstructRevenue
    \/ RaiseRevenue
    \/ SkipRevenue

Spec == Init /\ [][Next]_vars

\* the pages of Init whose arrays are short
FairInit ==
    /\ Init
    /\ \A g \in GlobalNames : Len(window[g].elems) <= MaxFairLen

\* the script is one synchronous job: once started it runs every statement
\* up to its end or to the uncaught error
FairSpec == FairInit /\ [][Next]_vars /\ WF_vars(Next)

(***************************************************************************)
(* Observations used by the properties.                                    *)
(***************************************************************************)
ChartIndexes == 1..Len(charts)

\* the charts constructed on the element with this id
ChartsOn(id) == {i \in ChartIndexes : charts[i].ctx = JSElement(id)}

LabelsOf(c) == c.config.data.labels
DataOf(c) == c.config.data.datasets[1].data

\* the run has ended, normally or by the uncaught error
Ended == pc \in {"done", "aborted"}

\* the charting library is on the page and its constructor returns
LibraryWorks == chartLib = "loaded" /\ chartRaises = {}

IsArray(v) == v.t = "array"

EqualLengthArrays ==
    /\ \A g \in GlobalNames : IsArray(window[g])
    /\ Len(window["__labels"].elems) = Len(window["__orderCounts"].elems)
    /\ Len(window["__labels"].elems) = Len(window["__revenues"].elems)

\* the series of a chart that comes from the global g, if it has one
SeriesFrom(c, g) ==
    CASE g = "__labels" -> LabelsOf(c)
      [] g = "__orderCounts" -> DataOf(c)
      [] g = "__revenues" -> DataOf(c)

\* the charts that receive the global g
ChartsFed(g) ==
    CASE g = "__labels" -> ChartIndexes
      [] g = "__orderCounts" -> ChartsOn("ordersChart")
      [] g = "__revenues" -> ChartsOn("revenueChart")

(***************************************************************************)
(* C1: with both elements on the page, three arrays of equal length and a  *)
(* working library, the finished run has constructed exactly two charts:   *)
(* first a line chart on ordersChart whose one dataset holds the order     *)
(* counts, then a bar chart on revenueChart whose one dataset holds the    *)
(* revenues, both with the label series as labels; and the run does not    *)
(* abort.                                                                  *)
(***************************************************************************)
C1_TwoCharts ==
    (document = ElementIds /\ EqualLengthArrays /\ LibraryWorks) =>
        /\ pc # "aborted"
        /\ pc = "done" =>
            /\ Len(charts) = 2
            /\ charts[1].ctx = JSElement("ordersChart")
            /\ charts[1].config.type = "line"
            /\ Len(charts[1].config.data.datasets) = 1
            /\ DataOf(charts[1]) = window["__orderCounts"]
            /\ LabelsOf(charts[1]) = window["__labels"]
            /\ charts[2].ctx = JSElement("revenueChart")
            /\ charts[2].config.type = "bar"
            /\ Len(charts[2].config.data.datasets) = 1
            /\ DataOf(charts[2]) = window["__revenues"]
            /\ LabelsOf(charts[2]) = window["__labels"]

\* the example of the specification, up to the names of the elements: two
\* labels, two order counts, two revenues, all three series different
C1_Witness ==
    /\ pc = "done"
    /\ document = ElementIds
    /\ window["__labels"] = JSArray(<<"x", "10">>)
    /\ window["__orderCounts"] = JSArray(<<"10", "10">>)
    /\ window["__revenues"] = JSArray(<<"10", "x">>)
    /\ Len(charts) = 2

(***************************************************************************)
(* C2: an element that is not on the page gets no chart, every chart sits  *)
(* on an element of the page, and the missing element raises nothing: the  *)
(* run is not aborted and has no error whenever the other element is       *)
(* missing too or the library works, and then it is either finished or     *)
(* able to take its next step.                                             *)
(***************************************************************************)
C2_MissingTarget ==
    /\ \A id \in ElementIds \ document : ChartsOn(id) = {}
    /\ \A i \in ChartIndexes : \E id \in document : charts[i].ctx = JSElement(id)
    /\ Len(charts) <= Cardinality(document)
    /\ (document # ElementIds /\ (document = {} \/ LibraryWorks)) =>
        /\ err = NoError
        /\ pc # "aborted"
        /\ pc = "done" \/ ENABLED Next
    /\ "ordersChart" \notin document /\ pc \in {"L18", "L19"} => err = NoError
    /\ "revenueChart" \notin document => err.line # 20

\* a finished run in which only the revenue element exists
C2_Witness ==
    /\ pc = "done"
    /\ document = {"revenueChart"}
    /\ Len(charts) = 1
    /\ \A g \in GlobalNames : IsArray(window[g]) /\ window[g] # EmptyArray

(***************************************************************************)
(* C3: when the three globals are undefined the three consts are empty     *)
(* arrays, every chart constructed has empty labels and one dataset with   *)
(* empty data, and with a working library the run does not fail.           *)
(***************************************************************************)
C3_UndefinedGlobals ==
    (\A g \in GlobalNames : window[g] = JSUndefined) =>
        /\ labels \in {Unbound, EmptyArray}
        /\ orderCounts \in {Unbound, EmptyArray}
        /\ revenues \in {Unbound, EmptyArray}
        /\ pc \notin {"L2"} => labels = EmptyArray
        /\ pc \notin {"L2", "L3"} => orderCounts = EmptyArray
        /\ pc \notin {"L2", "L3", "L4"} => revenues = EmptyArray
        /\ \A i \in ChartIndexes :
            /\ LabelsOf(charts[i]) = EmptyArray
            /\ Len(charts[i].config.data.datasets) = 1
            /\ DataOf(charts[i]) = EmptyArray
        /\ LibraryWorks =>
            /\ err = NoError
            /\ pc # "aborted"
            /\ pc = "done" => Len(charts) = Cardinality(document)

C3_Witness ==
    /\ \A g \in GlobalNames : window[g] = JSUndefined
    /\ pc = "done"
    /\ Len(charts) = 2

(***************************************************************************)
(* C4, as claimed: whenever a global is absent or is not an array, the     *)
(* series the charts receive for it is the empty array.                    *)
(***************************************************************************)
C4_MalformedDefaultsToEmpty ==
    \A g \in GlobalNames : ~IsArray(window[g]) =>
        \A i \in ChartsFed(g) : SeriesFrom(charts[i], g) = EmptyArray

(***************************************************************************)
(* C4, amended: whenever a global is falsy (undefined, null, 0, the empty  *)
(* string) the series the charts receive for it is the empty array; a      *)
(* truthy value that is not an array (a non-zero number, a non-empty       *)
(* string, an object) is passed to the library as it is.                   *)
(***************************************************************************)
C4_FalsyDefaultsToEmpty ==
    \A g \in GlobalNames : ~IsArray(window[g]) =>
        \A i \in ChartsFed(g) :
            /\ ~Truthy(window[g]) => SeriesFrom(charts[i], g) = EmptyArray
            /\ Truthy(window[g]) => SeriesFrom(charts[i], g) = window[g]

\* one falsy and two truthy malformed globals, both charts constructed
C4_Witness ==
    /\ pc = "done"
    /\ Len(charts) = 2
    /\ window["__labels"] = JSNull
    /\ window["__orderCounts"] = JSNumber("5")
    /\ window["__revenues"] = JSObject

(***************************************************************************)
(* C5: lengths and elements are not validated: whatever arrays are         *)
(* supplied, every chart receives exactly the supplied arrays, and with a  *)
(* working library the finished run has a chart on every element of the    *)
(* page.                                                                   *)
(***************************************************************************)
C5_NoValidation ==
    /\ \A g \in GlobalNames : IsArray(window[g]) =>
        \A i \in ChartsFed(g) : SeriesFrom(charts[i], g) = window[g]
    /\ (LibraryWorks /\ pc = "done") =>
        \A id \in document : Cardinality(ChartsOn(id)) = 1

\* mismatched lengths and non-numeric elements, both charts constructed
C5_Witness ==
    /\ pc = "done"
    /\ Len(charts) = 2
    /\ window["__labels"] = JSArray(<<"x">>)
    /\ window["__orderCounts"] = JSArray(<<"x", "10">>)
    /\ window["__revenues"] = EmptyArray

(***************************************************************************)
(* C6: no step changes a global, the page or the library; the only thing   *)
(* a step adds outside the script's own consts and position is one chart   *)
(* on an element of the page, or the uncaught error.                       *)
(***************************************************************************)
C6_ReadOnly ==
    [][/\ window' = window
       /\ document' = document
       /\ chartLib' = chartLib
       /\ chartRaises' = chartRaises
       /\ \/ charts' = charts
          \/ /\ Len(charts') = Len(charts) + 1
             /\ SubSeq(charts', 1, Len(charts)) = charts
             /\ \E id \in document : charts'[Len(charts')].ctx = JSElement(id)]_vars

\* a finished run that read an undefined, a falsy and an array global
C6_Witness ==
    /\ pc = "done"
    /\ Len(charts) = 2
    /\ window["__labels"] = JSUndefined
    /\ window["__orderCounts"] = JSString("")
    /\ window["__revenues"] = JSArray(<<"10", "x">>)

(***************************************************************************)
(* C7: every run ends, and ends normally when the library works; there     *)
(* are never more than two charts nor more than one on an element; a step  *)
(* constructs at most one chart, on an element that has none; and after    *)
(* the end nothing happens.                                                *)
(***************************************************************************)
C7_RunsOnce ==
    /\ <>Ended
    /\ LibraryWorks ~> (pc = "done")
    /\ [](/\ Len(charts) <= 2
          /\ \A id \in ElementIds : Cardinality(ChartsOn(id)) <= 1)
    /\ [][/\ ~Ended
          /\ Len(charts') <= Len(charts) + 1]_vars

\* the end of a run with two constructions
C7_Witness ==
    /\ pc = "done"
    /\ Len(charts) = 2
    /\ ~ENABLED Next

(***************************************************************************)
(* C8: what is constructed depends on the presence of the elements alone.  *)
(* Every chart has the fixed shape of its element (line, "Orders" for      *)
(* ordersChart; bar, "Revenue (KRW)" for revenueChart; one dataset;        *)
(* responsive), whatever the globals hold, and a finished run has charted  *)
(* exactly the elements of the page, orders first.                         *)
(***************************************************************************)
Shape(c) ==
    [target |-> c.ctx.prim,
     type |-> c.config.type,
     datasets |-> Len(c.config.data.datasets),
     label |-> c.config.data.datasets[1].label,
     responsive |-> c.config.options.responsive]

FixedShape(id) ==
    IF id = "ordersChart"
    THEN [target |-> id, type |-> "line", datasets |-> 1, label |-> "Orders",
          responsive |-> TRUE]
    ELSE [target |-> id, type |-> "bar", datasets |-> 1, label |-> "Revenue (KRW)",
          responsive |-> TRUE]

\* the targets charted by a finished run, as a function of the page alone
TargetsFor(doc) ==
    CASE doc = {} -> <<>>
      [] doc = {"ordersChart"} -> <<"ordersChart">>
      [] doc = {"revenueChart"} -> <<"revenueChart">>
      [] doc = ElementIds -> <<"ordersChart", "revenueChart">>

C8_PresenceOnly ==
    /\ \A i \in ChartIndexes :
        /\ charts[i].ctx.t = "element"
        /\ Shape(charts[i]) = FixedShape(charts[i].ctx.prim)
    /\ Len(charts) <= Len(TargetsFor(document))
    /\ pc = "done" =>
        /\ Len(charts) = Len(TargetsFor(document))
        /\ \A i \in ChartIndexes : charts[i].ctx.prim = TargetsFor(document)[i]

\* a finished run on non-array data with both charts
C8_Witness ==
    /\ pc = "done"
    /\ Len(charts) = 2
    /\ window["__labels"] = JSString("x")
    /\ window["__orderCounts"] = EmptyArray
    /\ window["__revenues"] = JSNumber("0")

(***************************************************************************)
(* C9: the revenue element is looked up only after the orders element has  *)
(* been looked up and its chart, if it has one, constructed, so no revenue *)
(* chart precedes an orders chart; when the orders construction raises,    *)
(* the run is aborted there, the revenue element is never looked up and    *)
(* no revenue chart exists even if the element is on the page; and with    *)
(* neither element on the page no chart is constructed and no error is     *)
(* raised, whatever the state of the library.                              *)
(***************************************************************************)
C9_Ordering ==
    /\ revenueCtx # Unbound =>
        /\ ordersCtx # Unbound
        /\ Truthy(ordersCtx) => ChartsOn("ordersChart") # {}
    /\ \A i, j \in ChartIndexes :
        (charts[i].ctx = JSElement("revenueChart")
            /\ charts[j].ctx = JSElement("ordersChart")) => j < i
    /\ err.line = 8 =>
        /\ pc = "aborted"
        /\ revenueCtx = Unbound
        /\ charts = <<>>
    /\ document = {} =>
        /\ charts = <<>>
        /\ err = NoError
        /\ pc = "done" \/ ENABLED Next

\* the orders construction raised on a page that has the revenue element,
\* with a constructor that would have returned on it
C9_Witness ==
    /\ err.line = 8
    /\ document = ElementIds
    /\ chartLib = "loaded"
    /\ chartRaises = {"ordersChart"}

(***************************************************************************)
(* C10, as claimed: each const is the empty array when its global is       *)
(* undefined and is its global, unchanged, when the global is defined.     *)
(***************************************************************************)
ConstOf(g) ==
    CASE g = "__labels" -> labels
      [] g = "__orderCounts" -> orderCounts
      [] g = "__revenues" -> revenues

C10_DefinedPassesThrough ==
    \A g \in GlobalNames : ConstOf(g) # Unbound =>
        /\ window[g] = JSUndefined => ConstOf(g) = EmptyArray
        /\ window[g] # JSUndefined => ConstOf(g) = window[g]

(***************************************************************************)
(* C10, amended: each const depends on its own global alone: it is the     *)
(* empty array when its global is undefined or another falsy value (null,  *)
(* 0, the empty string) and is its global, unchanged, when the global is   *)
(* truthy (any array, the empty one included), whatever the other two      *)
(* globals hold; the charts receive these consts.                          *)
(***************************************************************************)
C10_IndependentFallbacks ==
    /\ \A g \in GlobalNames : ConstOf(g) # Unbound =>
        /\ ~Truthy(window[g]) => ConstOf(g) = EmptyArray
        /\ Truthy(window[g]) => ConstOf(g) = window[g]
    /\ \A g \in GlobalNames : \A i \in ChartsFed(g) :
        SeriesFrom(charts[i], g) = ConstOf(g)

\* only the labels are undefined: the charts get no labels and two values
C10_Witness ==
    /\ pc = "done"
    /\ Len(charts) = 2
    /\ window["__labels"] = JSUndefined
    /\ LabelsOf(charts[1]) = EmptyArray
    /\ Len(DataOf(charts[1]).elems) = 2
    /\ Len(DataOf(charts[2]).elems) = 1

====
